---- MODULE Spec2Model ----
(***************************************************************************)
(* Model of the SystemData telemetry pipeline.                             *)
(*                                                                         *)
(*   read_data.py     SystemDataCollector.collect / get_disk_info and      *)
(*                    SystemDataManager.read_system_data                   *)
(*   display_data.py  SystemMonitorApp: on_mount, refresh_data,            *)
(*                    action_refresh, action_toggle_refresh                *)
(*                                                                         *)
(* Spec      is the application: one event loop thread that runs the       *)
(*           handlers to completion (refresh_data holds no await that      *)
(*           yields), and an input thread that queues key presses.         *)
(* SpecDisk  applies get_disk_info to a partition list in which at most    *)
(*           one usage query fails.                                        *)
(*                                                                         *)
(* Time is a logical clock: every operating-system query of collect()      *)
(* takes one tick, datetime.now() reads the clock without advancing it,    *)
(* and the idle time before a cycle brings the clock to the cycle's epoch. *)
(* A sub-record is represented by the tick at which it was read; the       *)
(* process sub-record also carries the process list, each process with its *)
(* pid and its memory_percent (<<m>>, or << >> for Python's None; m in     *)
(* tenths of a percent, which the table's "%.1f" format prints exactly).   *)
(***************************************************************************)
EXTENDS Integers, Sequences, FiniteSets

VARIABLES
    \* ---- SystemMonitorApp (display_data.py)
    auto_refresh,   \* reactive flag, line 193
    data,           \* self.data, line 199 / 234
    shown,          \* what each info widget was last updated with
    table,          \* what the ProcessTable was last updated with
    stamp,          \* what the "#timestamp" label was last updated with
    loading,        \* a LoadingIndicator is mounted
    lastNotice,     \* the last self.notify(...)
    mounted,        \* on_mount has started
    timerSet,       \* set_interval(REFRESH_INTERVAL, refresh_data) was called
    queue,          \* key presses read by the input thread, not yet dispatched
    pc,             \* position of the running handler
    exc,            \* exception in flight inside refresh_data that no except took
    propagated,     \* an exception left refresh_data
    \* ---- SystemDataCollector.collect (read_data.py)
    ci,             \* index of the next statement of collect()
    locals,         \* platform_data, network_data, cpu_data, ... so far
    ts,             \* value of datetime.now() taken for this cycle
    clock,          \* logical time
    \* ---- history of the current / last handler run
    trigger,        \* what started it: mount, timer, manual, toggle
    arrivedBusy,    \* its refresh request was read while a cycle was in flight
    cycleCollects,  \* calls of read_system_data it made
    nowCalls,       \* calls of datetime.now() it made
    failed,         \* the Manager failed or a presentation update raised
    reported,       \* the failure was notified
    swallowed,      \* widgets whose update failed inside the widget's own except
    managerRaised,  \* read_system_data let an exception out
    \* ---- history of the whole run
    inflight,       \* cycles started and not finished
    toggles,        \* toggle requests handled
    lastGood,       \* Snapshot of the most recent successful cycle
    cycles,         \* cycles started
    \* ---- get_disk_info (read_data.py), used by SpecDisk
    parts,          \* psutil.disk_partitions()
    failAt,         \* index of the partition whose disk_usage raises, 0: none
    disks,          \* the returned map
    dpc

appVars   == <<auto_refresh, data, shown, table, stamp, loading, lastNotice,
               mounted, timerSet, queue, pc, exc, propagated>>
colVars   == <<ci, locals, ts, clock>>
runVars   == <<trigger, arrivedBusy, cycleCollects, nowCalls, failed, reported,
               swallowed, managerRaised>>
histVars  == <<inflight, toggles, lastGood, cycles>>
diskVars  == <<parts, failAt, disks, dpc>>
vars      == <<appVars, colVars, runVars, histVars, diskVars>>

\* ---- bounds
MaxQueue   == 1
MaxToggles == 2
MaxCycles  == 2
MaxParts   == 3

\* ---- values
None == [none |-> TRUE]
ErrorText == [errortext |-> TRUE]

Collectors == {"platform", "network", "cpu", "memory", "disk", "process"}
CollectorErrors == {"OSError"}
PresentationErrors == {"NoMatches"}
ExceptionClasses == CollectorErrors \cup PresentationErrors \cup {"KeyError"}
WidgetClasses ==
    <<"SystemInfoWidget", "HardwareInfoWidget", "NetworkInfoWidget", "DiskUsageWidget">>
Keys == {"r", "t"}

NoLocals == [c \in Collectors |-> None]

\* Process lists get_running_processes may return (never empty: the program
\* is itself a process): two processes out of order, and one whose
\* memory_percent psutil could not read (None).
ProcLists ==
    { << [pid |-> 1, memory_percent |-> <<5>>], [pid |-> 2, memory_percent |-> <<70>>] >>,
      << [pid |-> 1, memory_percent |-> <<5>>], [pid |-> 2, memory_percent |-> << >>] >> }

\* Results of len(psutil.pids()): an enumeration separate from process_iter,
\* so the count may equal the length of the process list, or be below or
\* above it when a process exits or starts between the two.
PidCounts == {1, 2, 3}

IsFailure(d) == "error" \in DOMAIN d
IsSnapshot(d) == "timestamp" \in DOMAIN d

\* ---------------------------------------------------------------------------
\* read_data.py
\* ---------------------------------------------------------------------------

\* Variant: the capture time is taken before the collectors run.
CollectOrder_TimestampFirst ==
    <<"timestamp", "platform", "network", "cpu", "memory", "disk", "process">>

\* The statements of collect() in execution order: the six operating-system
\* reads, then datetime.now() as the first argument of SystemData(...).
CollectOrder ==
    <<"platform", "network", "cpu", "memory", "disk", "process", "timestamp">>

\* SystemData(timestamp=..., platform=..., network=..., hardware=..., process=...)
\* and asdict() of it: HardwareData nests cpu, memory and disk.
SystemData(t, l) ==
    [timestamp |-> t,
     platform  |-> l.platform,
     network   |-> l.network,
     hardware  |-> [cpu |-> l.cpu, memory |-> l.memory, disk |-> l.disk],
     process   |-> l.process]

\* Variant: the except clause hands back what was collected so far.
read_system_data_partial(l, e) == SystemData(clock, l)

\* except Exception as e: return {"error": f"Failed to collect system data: {e}"}
read_system_data_except(l, e) == [error |-> e]

\* "except Exception" of read_system_data
ManagerCatches(e) == e \in ExceptionClasses

\* ---------------------------------------------------------------------------
\* display_data.py
\* ---------------------------------------------------------------------------

\* Variant: refresh_data without the early return.
RefreshGuard_Always(flag) == TRUE

\* if not self.auto_refresh: return
RefreshGuard(flag) == flag

\* "except Exception" of refresh_data
RefreshCatches(e) == e \in ExceptionClasses

\* Variant: the collection yields to the event loop while it runs.
LoopIdle_Yielding == TRUE

\* refresh_data, the widgets' update_info and action_toggle_refresh hold no
\* await that yields: a handler starts only when no other handler is running.
LoopIdle == pc = "idle"

\* update_info(data) of info widget w: it renders the sub-record it reads; a
\* failure descriptor lacks that key, the KeyError is caught inside the widget,
\* which shows error text.
update_info(w, d) ==
    IF IsFailure(d) THEN ErrorText
    ELSE IF WidgetClasses[w] = "SystemInfoWidget" THEN d.platform
    ELSE IF WidgetClasses[w] = "HardwareInfoWidget"
           THEN [cpu |-> d.hardware.cpu, memory |-> d.hardware.memory]
    ELSE IF WidgetClasses[w] = "NetworkInfoWidget" THEN d.network
    ELSE d.hardware.disk

\* sorted(processes, key=memory_percent, reverse=True): stable, descending.
\* InsertDesc puts p behind the entries that are not smaller than it.
InsertDesc(sorted, p) ==
    LET ahead == Cardinality({i \in DOMAIN sorted :
                     sorted[i].memory_percent[1] >= p.memory_percent[1]})
    IN  SubSeq(sorted, 1, ahead) \o <<p>> \o SubSeq(sorted, ahead + 1, Len(sorted))

RECURSIVE SortDesc(_)
SortDesc(ps) ==
    IF ps = << >> THEN << >>
    ELSE InsertDesc(SortDesc(SubSeq(ps, 1, Len(ps) - 1)), ps[Len(ps)])

\* [:20] of update_processes
MaxRows == 20

NoProcessesRow == [text |-> "No processes available"]
ErrorRow == [text |-> "Error: Failed to update process data"]

\* A memory_percent of None makes sorted() (or, for a single process, the
\* "%.1f" format) raise TypeError inside update_processes.
UpdateFails(processes) ==
    \E i \in DOMAIN processes : processes[i].memory_percent = << >>

\* ProcessTable.update_processes(processes): the rows of the table afterwards.
\* The name and user columns are str() of their fields and cannot fail.
update_processes(processes) ==
    IF processes = << >> THEN <<NoProcessesRow>>
    ELSE IF UpdateFails(processes) THEN <<ErrorRow>>
    ELSE LET sorted == SortDesc(processes)
             top == SubSeq(sorted, 1,
                           IF Len(sorted) > MaxRows THEN MaxRows ELSE Len(sorted))
         IN  [i \in DOMAIN top |->
                [pid |-> top[i].pid, memory |-> top[i].memory_percent[1]]]

\* An exception e reaches the try block of refresh_data.
Raised(e) ==
    /\ failed' = TRUE
    /\ pc' = "finally"
    /\ IF RefreshCatches(e)
         THEN /\ lastNotice' = "error"
              /\ reported' = TRUE
              /\ exc' = "none"
         ELSE /\ exc' = e
              /\ UNCHANGED <<lastNotice, reported>>

\* Logical time at which the n-th cycle starts: later than every tick of the
\* cycles before it.
CycleEpoch(n) == n * (Len(CollectOrder) + 1)

\* refresh_data from its entry to the call of read_system_data.
refresh_data(trig, busy) ==
    /\ trigger' = trig
    /\ arrivedBusy' = busy
    /\ nowCalls' = 0
    /\ failed' = FALSE
    /\ reported' = FALSE
    /\ swallowed' = {}
    /\ managerRaised' = FALSE
    /\ IF RefreshGuard(auto_refresh)
         THEN /\ loading' = TRUE
              /\ pc' = "collect"
              /\ cycleCollects' = 1
              /\ ci' = 1
              /\ locals' = NoLocals
              /\ ts' = -1
              /\ inflight' = inflight + 1
              /\ cycles' = cycles + 1
              /\ clock' = CycleEpoch(cycles + 1)
              /\ UNCHANGED <<timerSet, lastNotice>>
         ELSE /\ pc' = "idle"
              /\ cycleCollects' = 0
              /\ UNCHANGED clock
              /\ timerSet' = (timerSet \/ trig = "mount")
              /\ lastNotice' = IF trig = "mount" THEN "help" ELSE lastNotice
              /\ UNCHANGED <<loading, ci, locals, ts, inflight, cycles>>
    /\ UNCHANGED <<auto_refresh, data, shown, table, stamp, exc, propagated,
                   toggles, lastGood, diskVars>>

\* on_mount: await self.refresh_data(); set_interval and notify follow in Finally.
on_mount ==
    /\ ~mounted
    /\ LoopIdle
    /\ mounted' = TRUE
    /\ UNCHANGED queue
    /\ refresh_data("mount", FALSE)

\* The interval timer calls refresh_data.
TimerFire ==
    /\ timerSet
    /\ LoopIdle
    /\ ~propagated
    /\ cycles < MaxCycles
    /\ UNCHANGED <<mounted, queue>>
    /\ refresh_data("timer", FALSE)

\* Toggle requests queued and not yet handled.
PendingToggles(q) == Cardinality({i \in DOMAIN q : q[i].key = "t"})

\* The input thread reads a key bound in BINDINGS and queues its action.
KeyPress(k) ==
    /\ mounted
    /\ ~propagated
    /\ Len(queue) < MaxQueue
    /\ k = "t" => toggles + PendingToggles(queue) < MaxToggles
    /\ queue' = Append(queue, [key |-> k, busy |-> (k = "r" /\ inflight > 0)])
    /\ UNCHANGED <<auto_refresh, data, shown, table, stamp, loading, lastNotice,
                   mounted, timerSet, pc, exc, propagated, colVars, runVars,
                   inflight, toggles, lastGood, cycles, diskVars>>

\* Binding("r", "refresh"): await self.refresh_data()
action_refresh ==
    /\ LoopIdle
    /\ ~propagated
    /\ queue # << >>
    /\ Head(queue).key = "r"
    /\ cycles < MaxCycles
    /\ queue' = Tail(queue)
    /\ UNCHANGED mounted
    /\ refresh_data("manual", Head(queue).busy)

\* Variant: the toggle switches auto-refresh off instead of flipping it.
toggle_value_off(flag) == FALSE

\* self.auto_refresh = not self.auto_refresh
toggle_value(flag) == ~flag

\* Binding("t", "toggle_refresh")
action_toggle_refresh ==
    /\ LoopIdle
    /\ ~propagated
    /\ queue # << >>
    /\ Head(queue).key = "t"
    /\ queue' = Tail(queue)
    /\ auto_refresh' = toggle_value(auto_refresh)
    /\ lastNotice' = "toggle"
    /\ trigger' = "toggle"
    /\ arrivedBusy' = Head(queue).busy
    /\ toggles' = toggles + 1
    /\ UNCHANGED <<data, shown, table, stamp, loading, mounted, timerSet, pc,
                   exc, propagated, colVars, cycleCollects, nowCalls, failed, swallowed,
                   reported, managerRaised, inflight, lastGood, cycles, diskVars>>

\* The value collector s returns at the current tick; ProcessData holds
\* len(psutil.pids()) and the list of get_running_processes.
SubRecord(s, n, ps) ==
    IF s = "process"
      THEN [readAt |-> clock, total_processes |-> n, running_processes |-> ps]
      ELSE [readAt |-> clock]

\* One operating-system read of collect(): it returns, or it raises and
\* read_system_data's except clause turns the exception into the descriptor;
\* the frame of collect() and its local variables end with the exception.
ReadCollector(s) ==
    /\ pc = "collect"
    /\ ci <= Len(CollectOrder)
    /\ CollectOrder[ci] = s
    /\ clock' = clock + 1
    /\ \E o \in {"ok"} \cup CollectorErrors :
         IF o = "ok"
           THEN /\ \E n \in (IF s = "process" THEN PidCounts ELSE {0}),
                        ps \in (IF s = "process" THEN ProcLists ELSE {<< >>}) :
                     locals' = [locals EXCEPT ![s] = SubRecord(s, n, ps)]
                /\ ci' = ci + 1
                /\ UNCHANGED <<data, pc, exc, lastNotice, failed, reported,
                               managerRaised>>
           ELSE /\ locals' = NoLocals
                /\ ci' = 1
                /\ IF ManagerCatches(o)
                     THEN /\ data' = read_system_data_except(locals, o)
                          /\ failed' = TRUE
                          /\ pc' = "widgets"
                          /\ UNCHANGED <<exc, lastNotice, reported, managerRaised>>
                     ELSE /\ managerRaised' = TRUE
                          /\ UNCHANGED data
                          /\ Raised(o)
    /\ UNCHANGED <<auto_refresh, shown, table, stamp, loading, mounted, timerSet,
                   queue, propagated, ts, trigger, arrivedBusy, cycleCollects,
                   nowCalls, swallowed, histVars, diskVars>>

\* timestamp=datetime.now().isoformat()
TakeTimestamp ==
    /\ pc = "collect"
    /\ ci <= Len(CollectOrder)
    /\ CollectOrder[ci] = "timestamp"
    /\ ts' = clock
    /\ nowCalls' = nowCalls + 1
    /\ ci' = ci + 1
    /\ UNCHANGED <<appVars, locals, clock, trigger, arrivedBusy, cycleCollects,
                   failed, reported, swallowed, managerRaised, histVars, diskVars>>

\* return asdict(system_data); self.data = ...; the frame of collect() and
\* its local variables end with the return.
ReturnSystemData ==
    /\ pc = "collect"
    /\ ci > Len(CollectOrder)
    /\ data' = SystemData(ts, locals)
    /\ lastGood' = SystemData(ts, locals)
    /\ pc' = "widgets"
    /\ locals' = NoLocals
    /\ ts' = -1
    /\ ci' = 1
    /\ UNCHANGED <<auto_refresh, shown, table, stamp, loading, lastNotice, mounted,
                   timerSet, queue, exc, propagated, clock, runVars, inflight,
                   toggles, cycles, diskVars>>

\* for widget_class in [...]: self.query_one(widget_class).update_info(self.data)
\* k widgets are updated before a query_one raises; k = 4: none raises.
UpdateWidgets ==
    /\ pc = "widgets"
    /\ \E k \in 0 .. Len(WidgetClasses) :
         /\ shown' = [w \in DOMAIN WidgetClasses |->
                        IF w <= k THEN update_info(w, data) ELSE shown[w]]
         /\ swallowed' = IF IsFailure(data) /\ k > 0
                           THEN swallowed \cup {"widgets"} ELSE swallowed
         /\ IF k < Len(WidgetClasses)
              THEN Raised("NoMatches")
              ELSE /\ pc' = "table"
                   /\ UNCHANGED <<exc, lastNotice, failed, reported>>
    /\ UNCHANGED <<auto_refresh, data, table, stamp, loading, mounted, timerSet,
                   queue, propagated, colVars, trigger, arrivedBusy, cycleCollects,
                   nowCalls, managerRaised, histVars, diskVars>>

\* update_processes(self.data["process"]["running_processes"]) and the
\* "#timestamp" label; self.data["process"] raises KeyError on a descriptor.
\* A failure inside update_processes is caught there: the table shows the
\* error row, nothing is raised or notified and the label is still updated.
\* o names the query_one that raises: that of the table, that of the label.
UpdateTable ==
    /\ pc = "table"
    /\ IF IsFailure(data)
         THEN /\ Raised("KeyError")
              /\ UNCHANGED <<table, stamp, swallowed>>
         ELSE \E o \in {"ok", "table", "stamp"} :
                /\ table' = IF o = "table" THEN table
                             ELSE update_processes(data.process.running_processes)
                /\ swallowed' =
                     IF o # "table" /\ UpdateFails(data.process.running_processes)
                       THEN swallowed \cup {"table"} ELSE swallowed
                /\ stamp' = IF o = "ok" THEN [last_update |-> data.timestamp] ELSE stamp
                /\ IF o = "ok"
                     THEN /\ pc' = "finally"
                          /\ UNCHANGED <<exc, lastNotice, failed, reported>>
                     ELSE Raised("NoMatches")
    /\ UNCHANGED <<auto_refresh, data, shown, loading, mounted, timerSet, queue,
                   propagated, colVars, trigger, arrivedBusy, cycleCollects,
                   nowCalls, managerRaised, histVars, diskVars>>

\* finally: loading.remove(); then the coroutine returns (or the exception
\* leaves it); on_mount goes on with set_interval and notify.  Time passes
\* until the next handler runs: the clock moves on to the next epoch.
Finally ==
    /\ pc = "finally"
    /\ loading' = FALSE
    /\ inflight' = inflight - 1
    /\ pc' = "idle"
    /\ exc' = "none"
    /\ propagated' = (exc # "none")
    /\ IF trigger = "mount" /\ exc = "none"
         THEN /\ timerSet' = TRUE
              /\ lastNotice' = "help"
         ELSE UNCHANGED <<timerSet, lastNotice>>
    /\ clock' = CycleEpoch(cycles + 1)
    /\ UNCHANGED <<auto_refresh, data, shown, table, stamp, mounted, queue,
                   ci, locals, ts, runVars, toggles, lastGood, cycles, diskVars>>

InitApp ==
    /\ auto_refresh = TRUE
    /\ data = None
    /\ shown = [w \in DOMAIN WidgetClasses |-> None]
    /\ table = << >>
    /\ stamp = None
    /\ loading = FALSE
    /\ lastNotice = "none"
    /\ mounted = FALSE
    /\ timerSet = FALSE
    /\ queue = << >>
    /\ pc = "idle"
    /\ exc = "none"
    /\ propagated = FALSE
    /\ ci = 1
    /\ locals = NoLocals
    /\ ts = -1
    /\ clock = 0
    /\ trigger = "none"
    /\ arrivedBusy = FALSE
    /\ cycleCollects = 0
    /\ nowCalls = 0
    /\ failed = FALSE
    /\ reported = FALSE
    /\ swallowed = {}
    /\ managerRaised = FALSE
    /\ inflight = 0
    /\ toggles = 0
    /\ lastGood = None
    /\ cycles = 0

Init ==
    /\ InitApp
    /\ parts = << >>
    /\ failAt = 0
    /\ disks = << >>
    /\ dpc = "off"

Next ==
    \/ on_mount
    \/ TimerFire
    \/ \E k \in Keys : KeyPress(k)
    \/ action_refresh
    \/ action_toggle_refresh
    \/ \E s \in Collectors : ReadCollector(s)
    \/ TakeTimestamp
    \/ ReturnSystemData
    \/ UpdateWidgets
    \/ UpdateTable
    \/ Finally

Spec == Init /\ [][Next]_vars

\* ---------------------------------------------------------------------------
\* get_disk_info (read_data.py)
\* ---------------------------------------------------------------------------

\* Partitions psutil.disk_partitions() may list; a device can be mounted at
\* more than one mountpoint.
Partitions ==
    { [device |-> "/dev/sda1", mountpoint |-> "/",     fstype |-> "btrfs"],
      [device |-> "/dev/sda1", mountpoint |-> "/home", fstype |-> "btrfs"],
      [device |-> "/dev/sdb1", mountpoint |-> "/mnt",  fstype |-> "vfat"],
      [device |-> "/dev/sdc1", mountpoint |-> "/data", fstype |-> "xfs"] }

\* psutil.disk_usage(mountpoint) where it succeeds.
disk_usage(m) ==
    LET pct == IF m = "/mnt" THEN 10 ELSE IF m = "/data" THEN 70 ELSE 55
    IN  [total |-> 100, used |-> pct, free |-> 100 - pct, percent |-> pct]

\* disks[partition.device] = {...}
DiskEntry(p) ==
    LET usage == disk_usage(p.mountpoint)
    IN  [mountpoint |-> p.mountpoint,
         filesystem |-> p.fstype,
         total      |-> usage.total,
         used       |-> usage.used,
         free       |-> usage.free,
         percent    |-> usage.percent]

\* The for loop of get_disk_info from partition i on; the usage query of
\* partition `bad` raises and the bare except continues with the next one.
RECURSIVE DiskLoop(_, _, _, _)
DiskLoop(ps, bad, i, acc) ==
    IF i > Len(ps) THEN acc
    ELSE IF i = bad THEN DiskLoop(ps, bad, i + 1, acc)
    ELSE DiskLoop(ps, bad, i + 1,
                  [d \in DOMAIN acc \cup {ps[i].device} |->
                     IF d = ps[i].device THEN DiskEntry(ps[i]) ELSE acc[d]])

\* Variant: the failing usage query ends the enumeration (break, not continue).
get_disk_info_abort(ps, bad) ==
    IF bad = 0 THEN DiskLoop(ps, 0, 1, << >>)
    ELSE DiskLoop(SubSeq(ps, 1, bad - 1), 0, 1, << >>)

get_disk_info(ps, bad) == DiskLoop(ps, bad, 1, << >>)

\* Lists of distinct partitions, in any order.
PartLists ==
    UNION { { ps \in [1 .. n -> Partitions] :
                \A i, j \in 1 .. n : ps[i] = ps[j] => i = j } : n \in 0 .. MaxParts }

InitDisk ==
    /\ InitApp
    /\ parts \in PartLists
    /\ failAt \in 0 .. Len(parts)
    /\ disks = << >>
    /\ dpc = "ready"

RunDiskInfo ==
    /\ dpc = "ready"
    /\ disks' = get_disk_info(parts, failAt)
    /\ dpc' = "done"
    /\ UNCHANGED <<appVars, colVars, runVars, histVars, parts, failAt>>

NextDisk == RunDiskInfo

SpecDisk == InitDisk /\ [][NextDisk]_vars

\* ---------------------------------------------------------------------------
\* Properties
\* ---------------------------------------------------------------------------

IsFailureDescriptor(d) == DOMAIN d = {"error"} /\ d.error \in ExceptionClasses

IsFullSnapshot(d) ==
    /\ DOMAIN d = {"timestamp", "platform", "network", "hardware", "process"}
    /\ d.timestamp >= 0
    /\ d.platform # None
    /\ d.network # None
    /\ DOMAIN d.hardware = {"cpu", "memory", "disk"}
    /\ d.hardware.cpu # None
    /\ d.hardware.memory # None
    /\ d.hardware.disk # None
    /\ d.process # None

\* Ticks at which the sub-records of Snapshot d were read.
ReadTimes(d) ==
    { d.platform.readAt, d.network.readAt, d.hardware.cpu.readAt,
      d.hardware.memory.readAt, d.hardware.disk.readAt, d.process.readAt }

\* C1: a manual refresh handled while auto-refresh is disabled and no cycle is
\* in flight calls read_system_data exactly once and publishes its result.
C1_ManualRefreshAlwaysCollects ==
    (pc = "idle" /\ trigger = "manual" /\ ~arrivedBusy /\ ~auto_refresh)
        => (cycleCollects = 1 /\ (IsFailure(data) \/ data = lastGood))

\* C2: after any sequence of cycles the data held for presentation, and what
\* the widgets show, is the Snapshot of the most recent successful cycle and
\* never the failure descriptor.
C2_LastKnownGoodRetained ==
    pc = "idle" =>
        /\ data = lastGood
        /\ \A w \in DOMAIN shown : shown[w] # ErrorText

\* C3: the number of collection cycles started and not yet finished is 0 or 1.
C3_AtMostOneInFlight == inflight \in {0, 1}

C3_Witness == inflight = 1 /\ timerSet /\ queue # << >>

\* C4: a manual refresh request read while a cycle was collecting is dropped:
\* its handler starts no cycle.
C4_RefreshWhileCollectingDropped ==
    (trigger = "manual" /\ arrivedBusy) => (pc = "idle" /\ cycleCollects = 0)

\* C5: a timer fire while auto-refresh is disabled calls no collect, leaves the
\* Scheduler idle and leaves the held Snapshot, the presentation and the flag
\* unchanged.
C5_TimerWhileDisabledIsNoOp ==
    [][(TimerFire /\ ~auto_refresh) =>
          /\ pc' = "idle"
          /\ cycleCollects' = 0
          /\ UNCHANGED <<auto_refresh, data, shown, table, stamp, loading,
                         inflight, cycles, lastGood, clock>>]_vars

C5_Witness ==
    trigger = "timer" /\ ~auto_refresh /\ pc = "idle" /\ IsSnapshot(data)

\* C6: a toggle request flips the auto-refresh flag, starts no cycle, leaves
\* the held Snapshot and a cycle's progress untouched; the flag starts enabled,
\* so after n toggles it is enabled exactly when n is even.
C6_ToggleOnlyFlipsFlag ==
    /\ [](auto_refresh = (toggles % 2 = 0))
    /\ [][action_toggle_refresh =>
            /\ auto_refresh' = ~auto_refresh
            /\ UNCHANGED <<data, shown, table, stamp, loading, pc, exc, colVars,
                           cycleCollects, inflight, cycles, lastGood>>]_vars

C6_Witness == toggles = 2 /\ auto_refresh /\ trigger = "toggle" /\ IsSnapshot(data)

\* C7: read_system_data returns a Snapshot with the timestamp and all four
\* sub-records present, or a failure descriptor carrying a cause; never a
\* partly filled Snapshot, and it never raises.
C7_SnapshotOrFailure ==
    /\ ~managerRaised
    /\ data = None \/ IsFailureDescriptor(data) \/ IsFullSnapshot(data)

C7_Witness == IsFailureDescriptor(data) /\ IsFullSnapshot(lastGood)

\* The last cycle failed: the Manager failed, a presentation update raised, or
\* a widget's update failed inside the widget.
CycleFailed == failed \/ swallowed # {}

\* C8: no exception leaves refresh_data; a cycle that failed (Manager failure
\* or presentation update failure) ends with the Scheduler idle and the failure
\* reported: notified by refresh_data or, when the widget caught it itself,
\* shown as the error text of that widget; and the next trigger after it,
\* a manual refresh in either auto-refresh state or a timer fire while
\* auto-refresh is enabled, starts a fresh collection cycle.
C8_NoErrorLeavesScheduler ==
    /\ [](~propagated)
    /\ []((pc = "idle" /\ CycleFailed) =>
             /\ ~loading /\ inflight = 0 /\ exc = "none"
             /\ failed => reported
             /\ "table" \in swallowed => table = <<ErrorRow>>
             /\ "widgets" \in swallowed => \E w \in DOMAIN shown : shown[w] = ErrorText)
    /\ [][(CycleFailed /\ (action_refresh \/ (auto_refresh /\ TimerFire))) =>
            (pc' = "collect" /\ cycleCollects' = 1 /\ ~CycleFailed')]_vars

\* Device of the partition whose usage query fails, and the failure-free map.
FailedDevice == parts[failAt].device
FailureFree == get_disk_info(parts, 0)
MountedOnce ==
    Cardinality({i \in DOMAIN parts : parts[i].device = FailedDevice}) = 1
OthersKept ==
    \A d \in DOMAIN FailureFree \ {FailedDevice} :
        d \in DOMAIN disks /\ disks[d] = FailureFree[d]

\* C9: with the usage query of one device D failing, D is absent from the
\* map, every other device keeps its entry, and the map is exactly one smaller
\* than in the failure-free run over the same partition list.
C9_FailedDeviceAbsent ==
    (dpc = "done" /\ failAt # 0) =>
        /\ FailedDevice \notin DOMAIN disks
        /\ OthersKept
        /\ Cardinality(DOMAIN disks) = Cardinality(DOMAIN FailureFree) - 1

\* C9 (amended): a usage query failure for one listed partition of device D
\* does not end the enumeration and every other device keeps its entry; D is
\* absent and the map one smaller when that partition is the only one of D in
\* the list, otherwise D stays in the map and the size is the same.
C9_FailedPartitionSkipped ==
    (dpc = "done" /\ failAt # 0) =>
        /\ OthersKept
        /\ DOMAIN disks \subseteq DOMAIN FailureFree
        /\ IF MountedOnce
             THEN /\ FailedDevice \notin DOMAIN disks
                  /\ Cardinality(DOMAIN disks) = Cardinality(DOMAIN FailureFree) - 1
             ELSE /\ FailedDevice \in DOMAIN disks
                  /\ Cardinality(DOMAIN disks) = Cardinality(DOMAIN FailureFree)

C9_Witness ==
    /\ dpc = "done"
    /\ failAt # 0
    /\ failAt < Len(parts)
    /\ MountedOnce
    /\ Cardinality(DOMAIN disks) = 2

\* C10: the capture timestamp is taken once and before any collector runs: it
\* is a lower bound on the read time of every sub-record of the Snapshot.
C10_TimestampBeforeCollectors ==
    /\ (pc = "widgets" /\ IsSnapshot(data)) => nowCalls = 1
    /\ IsSnapshot(data) => \A t \in ReadTimes(data) : data.timestamp <= t

\* C10 (amended): the capture timestamp is taken once and after all the
\* collectors have run: it is an upper bound on the read time of every
\* sub-record of the Snapshot.
C10_TimestampAfterCollectors ==
    /\ (pc = "widgets" /\ IsSnapshot(data)) => nowCalls = 1
    /\ IsSnapshot(data) => \A t \in ReadTimes(data) : t <= data.timestamp

C10_Witness == pc = "widgets" /\ IsSnapshot(data) /\ cycles = 2

====
